---------------------------- MODULE Spec2Model ----------------------------
(* A model of app.py, the Streamlit "AI PDF Viewer": the per-session      *)
(* state kept in st.session_state, the lazy page cache filled by          *)
(* ensure_pages_loaded, the navigation cursor and the range-keyed chat    *)
(* transcripts.  One action per script run, widget callback or dialog     *)
(* (fragment) run.                                                        *)
EXTENDS Integers, Sequences, FiniteSets, TLC

(* ---------------------------------------------------------------------- *)
(* Bounds of the model                                                    *)
(* ---------------------------------------------------------------------- *)
\* Largest page count of an uploaded document.
MaxPages == 3
\* Chat prompts are accepted while fewer than MaxTurns turns are recorded.
MaxTurns == 2
\* The per-index conversion/store counters saturate at MaxCount.
MaxCount == 2
\* In the chat dialog a range without a transcript is opened while fewer
\* than MaxKeys transcripts exist.
MaxKeys == 2
\* The texts given to fix_bold_symbol_issue are made of at most MaxTokens
\* tokens, and it is applied at most MaxPasses times in a row.
MaxTokens == 6
MaxPasses == 2

None == "None"

(* ---------------------------------------------------------------------- *)
(* Documents the user can upload (the external PDF library's view)        *)
(* ---------------------------------------------------------------------- *)
\* Target pages doc.get_toc() can report: 1-based page numbers; PyMuPDF
\* reports -1 for an entry without a destination in the document, and the
\* number of a damaged outline is not checked against the page count.
TocPages == {-1} \cup (1 .. MaxPages + 1)

RECURSIVE SetToSeq(_)
\* The ascending sequence of a finite set of integers.
SetToSeq(S) ==
    IF S = {} THEN <<>>
    ELSE LET m == CHOOSE x \in S : \A y \in S : x <= y
         IN <<m>> \o SetToSeq(S \ {m})

NoFile == [name |-> None, opens |-> FALSE, page_count |-> 0, toc |-> <<>>]

\* What pymupdf.open / page_count / get_toc give for the files uploaded:
\* a.pdf has 0 .. MaxPages pages and an outline with one entry per possible
\* target page; b.pdf is a one-page document without outline, or does not
\* open (and then has no page count and no outline).
Files ==
    {[name |-> "a.pdf", opens |-> TRUE, page_count |-> n,
      toc |-> SetToSeq(TocPages)] : n \in 0 .. MaxPages}
    \cup {[name |-> "b.pdf", opens |-> TRUE, page_count |-> 1, toc |-> <<>>],
          [name |-> "b.pdf", opens |-> FALSE, page_count |-> 0,
           toc |-> <<>>]}

(* ---------------------------------------------------------------------- *)
(* Page entries and the converter                                         *)
(* ---------------------------------------------------------------------- *)
\* The page_data chunk pymupdf4llm.to_markdown returns for page idx.
PageData(idx) == [text |-> <<"md", idx>>]

\* The placeholder stored by the except branch of ensure_pages_loaded.
ErrorEntry == [text |-> <<"Error loading page.", -1>>]

EmptyPages == [idx \in {} |-> ErrorEntry]

Range(s) == {s[k] : k \in 1 .. Len(s)}

RECURSIVE Insert(_, _)
Insert(x, s) ==
    IF s = <<>> THEN <<x>>
    ELSE IF x <= Head(s) THEN <<x>> \o s
    ELSE <<Head(s)>> \o Insert(x, Tail(s))

RECURSIVE SortList(_)
\* list.sort(): the ascending rearrangement of s.
SortList(s) == IF s = <<>> THEN <<>> ELSE Insert(Head(s), SortList(Tail(s)))

\* list(range(a, b))
RangeList(a, b) == [k \in 1 .. (IF b > a THEN b - a ELSE 0) |-> a + k - 1]

\* pymupdf4llm.to_markdown(doc, pages=indices, page_chunks=True): one chunk
\* per requested page, in the order of the request.
ToMarkdown(indices) == [k \in 1 .. Len(indices) |-> PageData(indices[k])]

\* The conversion raises when the library fails (outcome "raises") or when a
\* requested page is not a page of the document.
ConverterRaises(doc, indices, outcome) ==
    \/ outcome = "raises"
    \/ \E k \in 1 .. Len(indices) : indices[k] \notin 0 .. doc.page_count - 1

Put(pgs, idx, entry) ==
    [i \in DOMAIN pgs \cup {idx} |-> IF i = idx THEN entry ELSE pgs[i]]

\* pages[idx] = entry, noted in the list of assignments made by the call.
Assign(c, idx, entry) ==
    [pages |-> Put(c.pages, idx, entry), stores |-> Append(c.stores, idx)]

RECURSIVE StoreAllReversed(_, _, _, _)
\* The store loop pairing the chunks with the indices in reverse order.
StoreAllReversed(c, indices, data, k) ==
    IF k > Len(data) THEN c
    ELSE StoreAllReversed(
             Assign(c, indices[Len(indices) + 1 - k], data[k]),
             indices, data, k + 1)

RECURSIVE StoreAll(_, _, _, _)
\* for i, page_data in enumerate(page_data_list):
\*     st.session_state.pages[indices_to_load[i]] = page_data
StoreAll(c, indices, data, k) ==
    IF k > Len(data) THEN c
    ELSE StoreAll(Assign(c, indices[k], data[k]), indices, data, k + 1)

\* The except branch storing no placeholder.
StoreErrorSkip(c, idx) == c

\* if idx not in st.session_state.pages:
\*     st.session_state.pages[idx] = {"text": "Error loading page."}
StoreError(c, idx) ==
    IF idx \notin DOMAIN c.pages THEN Assign(c, idx, ErrorEntry) ELSE c

RECURSIVE StoreErrors(_, _, _)
\* for idx in indices_to_load: ... (the except branch)
StoreErrors(c, indices, k) ==
    IF k > Len(indices) THEN c
    ELSE StoreErrors(StoreError(c, indices[k]), indices, k + 1)

\* The list without the filter: every requested index is loaded.
IndicesToLoadAll(pgs, page_indices) == page_indices

\* The filter taking a placeholder for a missing entry: a failed page is
\* loaded again.
IndicesToLoadRetry(pgs, page_indices) ==
    SelectSeq(page_indices,
              LAMBDA idx : idx \notin DOMAIN pgs \/ pgs[idx] = ErrorEntry)

\* indices_to_load = [idx for idx in page_indices if idx not in pages]
IndicesToLoad(pgs, page_indices) ==
    SelectSeq(page_indices, LAMBDA idx : idx \notin DOMAIN pgs)

ConvOutcomes == {"ok", "raises", "close_raises"}

\* What one call of ensure_pages_loaded did: the cache it leaves (pages), the
\* indices it assigned, in order (stores), and its trace: the list it was
\* asked for (req), the requested indices that were cached when it was
\* called (cached), its converter invocations, each with its page list
\* (calls), and how the try block ended (outcome: "cached" when nothing was
\* missing).
EnsureResult(c, page_indices, pgs, calls, outcome) ==
    [pages |-> c.pages, stores |-> c.stores,
     trace |-> [req |-> page_indices,
                cached |-> Range(page_indices) \cap DOMAIN pgs,
                calls |-> calls, outcome |-> outcome]]

\* ensure_pages_loaded(pdf_stream, page_indices) on the cache pgs, doc being
\* the document pdf_stream holds.
EnsurePagesLoaded(pgs, doc, page_indices, outcome) ==
    LET indices_to_load == IndicesToLoad(pgs, page_indices)
        sorted == SortList(indices_to_load)
        c0 == [pages |-> pgs, stores |-> <<>>]
    IN  IF indices_to_load = <<>>
        THEN EnsureResult(c0, page_indices, pgs, <<>>, "cached")
        ELSE IF ~doc.opens
        THEN \* pymupdf.open raises, before the sort and the conversion
             EnsureResult(StoreErrors(c0, indices_to_load, 1),
                          page_indices, pgs, <<>>, "open_raises")
        ELSE IF ConverterRaises(doc, sorted, outcome)
        THEN EnsureResult(StoreErrors(c0, sorted, 1),
                          page_indices, pgs, <<sorted>>, "raises")
        ELSE LET filled == StoreAll(c0, sorted, ToMarkdown(sorted), 1)
             IN  IF outcome = "close_raises"
                 THEN \* doc.close() raises after the entries are stored
                      EnsureResult(StoreErrors(filled, sorted, 1),
                                   page_indices, pgs, <<sorted>>,
                                   "close_raises")
                 ELSE EnsureResult(filled, page_indices, pgs, <<sorted>>,
                                   "ok")

(* ---------------------------------------------------------------------- *)
(* Chat transcripts and their keys                                        *)
(* ---------------------------------------------------------------------- *)
Digits == <<"0", "1", "2", "3", "4", "5", "6", "7", "8", "9">>

RECURSIVE Str(_)
\* str(n): the decimal digits of n, as a sequence of characters.
Str(n) ==
    IF n < 0 THEN <<"-">> \o Str(-n)
    ELSE IF n < 10 THEN <<Digits[n + 1]>>
    ELSE Str(n \div 10) \o <<Digits[(n % 10) + 1]>>

\* A dictionary key is an int or a str; an int never equals a str.
IntKey(n) == [kind |-> "int", repr |-> Str(n)]
StrKey(chars) == [kind |-> "str", repr |-> chars]

\* The key without the single-page case: always "first-last".
ChatKeyComposite(selected_indices) ==
    StrKey(Str(selected_indices[1]) \o <<"-">>
           \o Str(selected_indices[Len(selected_indices)]))

\* The composite key made of the first index only.
ChatKeyFirst(selected_indices) ==
    IF Len(selected_indices) = 1
    THEN IntKey(selected_indices[1])
    ELSE StrKey(Str(selected_indices[1]))

\* if len(selected_indices) == 1: chat_key = selected_indices[0]
\* else: chat_key = f"{selected_indices[0]}-{selected_indices[-1]}"
ChatKey(selected_indices) ==
    IF Len(selected_indices) = 1
    THEN IntKey(selected_indices[1])
    ELSE StrKey(Str(selected_indices[1]) \o <<"-">>
                \o Str(selected_indices[Len(selected_indices)]))

\* selected_indices = list(range(start_page - 1, end_page))
SelectedIndices(start_page, end_page) == RangeList(start_page - 1, end_page)

EmptyChats == [k \in {} |-> <<>>]

\* The assignment reaching every transcript: one list shared by all keys.
PutChatShared(h, key, turns) == [k \in DOMAIN h \cup {key} |-> turns]

\* st.session_state.chat_histories[chat_key] = turns
PutChat(h, key, turns) ==
    [k \in DOMAIN h \cup {key} |-> IF k = key THEN turns ELSE h[k]]

UserTurn == [role |-> "user", content |-> "prompt"]
AssistantTurn == [role |-> "assistant", content |-> "answer"]

RECURSIVE SumLen(_, _)
SumLen(h, keys) ==
    IF keys = {} THEN 0
    ELSE LET k == CHOOSE x \in keys : TRUE
         IN Len(h[k]) + SumLen(h, keys \ {k})

\* The number of turns recorded in all transcripts.
TotalTurns(h) == SumLen(h, DOMAIN h)

\* How an LLM call ends: an answer, the provider raising, or no client
\* (GEMINI_API_KEY not set).
LlmOutcomes == {"ok", "raises", "noclient"}

(* ---------------------------------------------------------------------- *)
(* st.session_state                                                       *)
(* ---------------------------------------------------------------------- *)
\* initialize_state(): the session state of a fresh session.
InitialSession ==
    [current_page |-> 0, pages |-> EmptyPages, total_pages |-> 0,
     uploaded_file_name |-> None, toc |-> <<>>,
     chat_histories |-> EmptyChats]

\* reset_state() without the line that empties chat_histories.
ResetStateKeepChats(s) ==
    [s EXCEPT !.current_page = 0, !.pages = EmptyPages, !.total_pages = 0,
              !.uploaded_file_name = None, !.toc = <<>>]

\* reset_state()
ResetState(s) ==
    [s EXCEPT !.current_page = 0, !.pages = EmptyPages, !.total_pages = 0,
              !.uploaded_file_name = None, !.toc = <<>>,
              !.chat_histories = EmptyChats]

\* What one run of the script or of a dialog did, besides the session state
\* s it leaves: the dialog it shows, whether it asked for a rerun
\* (st.rerun()), its ensure_pages_loaded calls in order (ens), whether it
\* reset the session (reset) and whether that discarded page entries or
\* transcripts (lost), the message it showed (error), what the bounds check
\* of the current page did (clamp: "none" when not reached), the page it
\* loads and displays (shown), how the LLM call ended (llm) and the
\* download it offered (artifact).
Ran(s) ==
    [s |-> s, dialog |-> "none", rerun |-> FALSE, ens |-> <<>>,
     reset |-> FALSE, lost |-> FALSE, error |-> "none", clamp |-> "none",
     shown |-> -1, llm |-> "none", artifact |-> <<>>]

\* get_gemini_client() and client.models.generate_content(...): the answer
\* is used ("ok") unless there is no client or the provider raises.
Generate(llm) == llm

\* The message shown for an LLM call: st.error in get_gemini_client when
\* there is no client, st.error in the except branch when the call raises.
LlmError(answer) ==
    IF answer = "raises" THEN "llm"
    ELSE IF answer = "noclient" THEN "noclient" ELSE "none"

(* ---------------------------------------------------------------------- *)
(* chat_dialog                                                            *)
(* ---------------------------------------------------------------------- *)
\* The transcript with an assistant turn appended whatever the call did.
PromptedAlways(turns, answer) ==
    Append(Append(turns, UserTurn), AssistantTurn)

\* The transcript after a prompt: the user's turn, then the assistant's turn
\* when the provider answered.
Prompted(turns, answer) ==
    IF answer = "ok"
    THEN Append(Append(turns, UserTurn), AssistantTurn)
    ELSE Append(turns, UserTurn)

\* The range check letting a range reversed by one page through.
RangeInvalidOffByOne(start_page, end_page) == start_page > end_page + 1

\* if start_page > end_page: st.error(...); return
RangeInvalid(start_page, end_page) == start_page > end_page

\* One run of chat_dialog with the widget values start_page, end_page,
\* clear_clicked and prompted (a prompt was submitted).
ChatDialog(s, doc, start_page, end_page, clear_clicked, prompted, conv, llm) ==
    IF RangeInvalid(start_page, end_page)
    THEN [Ran(s) EXCEPT !.dialog = "chat", !.error = "range"]
    ELSE
    LET selected_indices == SelectedIndices(start_page, end_page)
        e == EnsurePagesLoaded(s.pages, doc, selected_indices, conv)
    IN
    IF selected_indices = <<>>
    THEN \* selected_indices[0] raises IndexError, after the load
         [Ran([s EXCEPT !.pages = e.pages]) EXCEPT
            !.dialog = "chat", !.ens = <<e>>, !.error = "IndexError"]
    ELSE
    LET chat_key == ChatKey(selected_indices)
        h0 == s.chat_histories
        h1 == IF chat_key \notin DOMAIN h0 THEN PutChat(h0, chat_key, <<>>)
              ELSE h0
        s1 == [s EXCEPT !.pages = e.pages, !.chat_histories = h1]
        r1 == [Ran(s1) EXCEPT !.dialog = "chat", !.ens = <<e>>]
    IN  IF clear_clicked
        THEN [r1 EXCEPT !.s.chat_histories = PutChat(h1, chat_key, <<>>),
                        !.rerun = TRUE]
        ELSE IF ~prompted THEN r1
        ELSE LET answer == Generate(llm)
             IN [r1 EXCEPT
                   !.s.chat_histories =
                       PutChat(h1, chat_key, Prompted(h1[chat_key], answer)),
                   !.llm = answer,
                   !.error = LlmError(answer)]

(* ---------------------------------------------------------------------- *)
(* main                                                                   *)
(* ---------------------------------------------------------------------- *)
\* The bounds check without its elif branch.
ClampLower(current_page_index, total_pages) ==
    IF current_page_index < 0 THEN 0 ELSE current_page_index

\* The bounds check with total_pages for total_pages - 1.
ClampOffByOne(current_page_index, total_pages) ==
    IF current_page_index < 0 THEN 0
    ELSE IF current_page_index >= total_pages THEN total_pages
    ELSE current_page_index

\* "Ensure current_page_index is within valid bounds"
Clamp(current_page_index, total_pages) ==
    IF current_page_index < 0 THEN 0
    ELSE IF current_page_index >= total_pages THEN total_pages - 1
    ELSE current_page_index

\* The session after the upload check: reset and opened anew when the file
\* name differs from the stored one (reset again when it does not open).
OpenedKeepName(s, f) ==
    IF s.uploaded_file_name # f.name
    THEN IF f.opens
         THEN [ResetState(s) EXCEPT !.uploaded_file_name = f.name,
                                    !.toc = f.toc,
                                    !.total_pages = f.page_count]
         ELSE [ResetState(s) EXCEPT !.uploaded_file_name = f.name]
    ELSE s

\* The upload check of main(): a file of a new name resets the session and
\* is opened for its outline and page count; a failure to open resets the
\* session again.
Opened(s, f) ==
    IF s.uploaded_file_name # f.name
    THEN IF f.opens
         THEN [ResetState(s) EXCEPT !.uploaded_file_name = f.name,
                                    !.toc = f.toc,
                                    !.total_pages = f.page_count]
         ELSE ResetState([ResetState(s) EXCEPT !.uploaded_file_name = f.name])
    ELSE s

\* full_text over range(total_pages): the texts joined in page order, a
\* missing entry giving the empty text.
FullText(pgs, total_pages) ==
    [k \in 1 .. total_pages |->
        IF (k - 1) \in DOMAIN pgs THEN pgs[k - 1].text ELSE <<"", -1>>]

\* The test taking a cache that lacks one page for a complete one.
AllPagesLoadedButOne(pgs, total_pages) ==
    Cardinality(DOMAIN pgs) >= total_pages - 1

\* all_pages_loaded = len(st.session_state.pages) == total_pages
AllPagesLoaded(pgs, total_pages) == Cardinality(DOMAIN pgs) = total_pages

Buttons == {"toc", "summarize_all", "summarize_page", "chat", "download"}

\* The sidebar buttons and what follows them, from the state r.s in which
\* the current page cur is loaded.
AfterButton(r, f, cur, button, conv, llm) ==
    LET s == r.s
        all_indices == RangeList(0, s.total_pages)
    IN  IF button = "toc" THEN [r EXCEPT !.dialog = "toc"]
        ELSE IF button = "summarize_all"
        THEN LET e == EnsurePagesLoaded(s.pages, f, all_indices, conv)
                 answer == Generate(llm)
             IN [r EXCEPT !.s.pages = e.pages, !.ens = Append(r.ens, e),
                          !.llm = answer,
                          !.error = LlmError(answer),
                          !.dialog = IF answer = "ok" THEN "summary"
                                     ELSE "none"]
        ELSE IF button = "summarize_page"
        THEN LET answer == Generate(llm)
             IN [r EXCEPT !.llm = answer,
                          !.error = LlmError(answer),
                          !.dialog = IF answer = "ok" THEN "summary"
                                     ELSE "none"]
        ELSE IF button = "chat"
        THEN LET c == ChatDialog(s, f, cur + 1, cur + 1, FALSE, FALSE, conv,
                                 llm)
             IN [c EXCEPT !.ens = r.ens \o c.ens, !.shown = r.shown,
                          !.reset = r.reset, !.lost = r.lost,
                          !.clamp = r.clamp]
        ELSE r

\* The download section: the artifact when every page is loaded, else the
\* button that loads all pages and reruns.
Download(r, f, button, conv) ==
    LET s == r.s
    IN  IF AllPagesLoaded(s.pages, s.total_pages)
        THEN [r EXCEPT !.artifact = FullText(s.pages, s.total_pages)]
        ELSE IF button = "download"
        THEN LET e == EnsurePagesLoaded(s.pages, f,
                                        RangeList(0, s.total_pages), conv)
             IN [r EXCEPT !.s.pages = e.pages, !.ens = Append(r.ens, e),
                          !.rerun = TRUE]
        ELSE r

\* One run of main() with the uploader holding f and the sidebar button
\* clicked ("none": no button).
Main(s, f, button, conv1, conv2, llm) ==
    LET lost == s.pages # EmptyPages \/ s.chat_histories # EmptyChats
    IN
    IF f = NoFile
    THEN \* "If no file is uploaded, ensure the state is clean"
         IF s.uploaded_file_name # None
         THEN [Ran(ResetState(s)) EXCEPT !.reset = TRUE, !.lost = lost]
         ELSE Ran(s)
    ELSE
    LET changed == s.uploaded_file_name # f.name
        s1 == Opened(s, f)
        total_pages == s1.total_pages
    IN  IF changed /\ ~f.opens
        THEN [Ran(s1) EXCEPT !.reset = TRUE, !.lost = lost,
                             !.error = "open"]
        ELSE IF total_pages = 0
        THEN [Ran(s1) EXCEPT !.reset = changed, !.lost = changed /\ lost,
                             !.error = "empty"]
        ELSE
        LET cur == Clamp(s1.current_page, total_pages)
            s2 == [s1 EXCEPT !.current_page = cur]
            e1 == EnsurePagesLoaded(s2.pages, f, <<cur>>, conv1)
            s3 == [s2 EXCEPT !.pages = e1.pages]
            r3 == [Ran(s3) EXCEPT
                     !.reset = changed, !.lost = changed /\ lost,
                     !.ens = <<e1>>, !.shown = cur,
                     !.clamp = IF s1.current_page < 0 THEN "low"
                               ELSE IF s1.current_page >= total_pages
                               THEN "high" ELSE "kept"]
        IN  IF cur \notin DOMAIN s3.pages
            THEN \* st.session_state.pages[current_page_index] raises
                 [r3 EXCEPT !.error = "KeyError"]
            ELSE Download(AfterButton(r3, f, cur, button, conv2, llm),
                          f, button, conv2)

(* ---------------------------------------------------------------------- *)
(* fix_bold_symbol_issue                                                  *)
(* ---------------------------------------------------------------------- *)
\* A text is a sequence of characters.  The tokens texts are made of: the
\* bold marker, an asterisk, a letter, a symbol, a space and a newline.
Tokens == {<<"*", "*">>, <<"*">>, <<"a">>, <<"!">>, <<" ">>, <<"\n">>}

RECURSIVE TokenTexts(_)
\* The texts of at most n tokens.
TokenTexts(n) ==
    IF n = 0 THEN {<<>>}
    ELSE LET shorter == TokenTexts(n - 1)
         IN  shorter \cup {s \o tk : s \in shorter, tk \in Tokens}

\* \s
IsSpace(ch) == ch \in {" ", "\n"}

\* [0-9A-Za-z], for the letters and digits that occur in the texts
IsAlnum(ch) == ch \in {"a", "e", "k", "n", "o", "t", "x", "0", "9"}

\* The search for [^0-9A-Za-z], whitespace counting as a symbol.
HasNonAlnum(inner) == \E n \in 1 .. Len(inner) : ~IsAlnum(inner[n])

\* re.search(r"[^0-9A-Za-z\s]", inner)
HasSymbol(inner) ==
    \E n \in 1 .. Len(inner) : ~IsAlnum(inner[n]) /\ ~IsSpace(inner[n])

\* \*\* at position n of md
StarsAt(md, n) == n + 1 <= Len(md) /\ md[n] = "*" /\ md[n + 1] = "*"

RECURSIVE CloseFrom(_, _)
\* (.+?)\*\*: the first closing marker at or after position n, 0 if none.
CloseFrom(md, n) ==
    IF n + 1 > Len(md) THEN 0
    ELSE IF StarsAt(md, n) THEN n
    ELSE CloseFrom(md, n + 1)

RECURSIVE SpaceEnd(_, _)
\* (\s*): the position after the whitespace that starts at position n.
SpaceEnd(md, n) ==
    IF n <= Len(md) /\ IsSpace(md[n]) THEN SpaceEnd(md, n + 1) ELSE n

\* pattern.match at position n: the opening marker, at least one character
\* (any, with DOTALL) up to the first closing marker, and the whitespace
\* after it; stop = 0 when there is no match at n.
MatchAt(md, n) ==
    LET close == IF StarsAt(md, n) THEN CloseFrom(md, n + 3) ELSE 0
        stop == IF close = 0 THEN 0 ELSE SpaceEnd(md, close + 2)
    IN  [start |-> n, stop |-> stop,
         inner |-> IF close = 0 THEN <<>> ELSE SubSeq(md, n + 2, close - 1),
         after |-> IF close = 0 THEN <<>>
                   ELSE SubSeq(md, close + 2, stop - 1),
         whole |-> IF close = 0 THEN <<>> ELSE SubSeq(md, n, stop - 1)]

\* repl without the test of the text after the closing marker.
ReplNoAfterTest(m) ==
    IF HasSymbol(m.inner) THEN m.whole \o <<" ">> ELSE m.whole

\* def repl(m)
Repl(m) ==
    IF HasSymbol(m.inner) /\ m.after = <<>>
    THEN <<"*", "*">> \o m.inner \o <<"*", "*", " ">>
    ELSE m.whole

RECURSIVE Sub(_, _)
\* pattern.sub(repl, md) from position n on: the leftmost matches, none
\* overlapping another, each replaced by repl(m), the rest copied.
Sub(md, n) ==
    IF n > Len(md) THEN <<>>
    ELSE LET m == MatchAt(md, n)
         IN  IF m.stop = 0 THEN <<md[n]>> \o Sub(md, n + 1)
             ELSE Repl(m) \o Sub(md, m.stop)

\* fix_bold_symbol_issue(md)
FixBoldSymbolIssue(text) == Sub(text, 1)

(* ---------------------------------------------------------------------- *)
(* State                                                                  *)
(* ---------------------------------------------------------------------- *)
VARIABLES
    md,                  \* the text given to fix_bold_symbol_issue
    fixed_text,          \* its result, and the results of applying it again
    uploaded_file,       \* the file the uploader widget holds (NoFile: none)
    current_page,        \* st.session_state.current_page
    pages,               \* st.session_state.pages: page index -> entry
    total_pages,         \* st.session_state.total_pages
    uploaded_file_name,  \* st.session_state.uploaded_file_name
    toc,                 \* st.session_state.toc: the target pages
    chat_histories,      \* st.session_state.chat_histories: key -> turns
    dialog,              \* the dialog on screen
    rerun,               \* a rerun of the script is queued
    conv_count,          \* per index: times passed to the converter
    store_count,         \* per index: times its cache entry was assigned
    ev                   \* what the last run did

session_vars ==
    <<current_page, pages, total_pages, uploaded_file_name, toc,
      chat_histories>>

repair_vars == <<md, fixed_text>>

vars ==
    <<uploaded_file, current_page, pages, total_pages, uploaded_file_name,
      toc, chat_histories, dialog, rerun, conv_count, store_count, ev,
      md, fixed_text>>

\* st.session_state as one record.
Session ==
    [current_page |-> current_page, pages |-> pages,
     total_pages |-> total_pages, uploaded_file_name |-> uploaded_file_name,
     toc |-> toc, chat_histories |-> chat_histories]

ZeroCount == [idx \in 0 .. MaxPages - 1 |-> 0]

RECURSIVE CountUp(_, _)
\* The counters after one more occurrence of each index of the list.
CountUp(cnt, idxs) ==
    IF idxs = <<>> THEN cnt
    ELSE LET idx == Head(idxs)
             c1 == IF idx \in DOMAIN cnt /\ cnt[idx] < MaxCount
                   THEN [cnt EXCEPT ![idx] = @ + 1] ELSE cnt
         IN CountUp(c1, Tail(idxs))

RECURSIVE Flatten(_)
Flatten(ss) == IF ss = <<>> THEN <<>> ELSE Head(ss) \o Flatten(Tail(ss))

\* The indices passed to the converter / assigned by a run's calls.
Converted(ens) ==
    Flatten([k \in 1 .. Len(ens) |-> Flatten(ens[k].trace.calls)])
Stored(ens) == Flatten([k \in 1 .. Len(ens) |-> ens[k].stores])

\* The record of a run: the handler (op) and the widget values it read
\* (args), the message it showed (error), whether it reset the session and
\* what that discarded, what the bounds check did, the page displayed, the
\* download it offered, and the traces of its ensure_pages_loaded calls, in
\* order.
Event(op, args, r) ==
    [op |-> op, args |-> args, error |-> r.error, reset |-> r.reset,
     lost |-> r.lost, clamp |-> r.clamp, shown |-> r.shown,
     artifact |-> r.artifact,
     ens |-> [k \in 1 .. Len(r.ens) |-> r.ens[k].trace]]

\* The state a run r leaves.
Apply(r) ==
    /\ current_page' = r.s.current_page
    /\ pages' = r.s.pages
    /\ total_pages' = r.s.total_pages
    /\ uploaded_file_name' = r.s.uploaded_file_name
    /\ toc' = r.s.toc
    /\ chat_histories' = r.s.chat_histories
    /\ dialog' = r.dialog
    /\ rerun' = r.rerun
    /\ conv_count' = CountUp(IF r.reset THEN ZeroCount ELSE conv_count,
                             Converted(r.ens))
    /\ store_count' = CountUp(IF r.reset THEN ZeroCount ELSE store_count,
                              Stored(r.ens))

Init ==
    /\ uploaded_file = NoFile
    /\ current_page = InitialSession.current_page
    /\ pages = InitialSession.pages
    /\ total_pages = InitialSession.total_pages
    /\ uploaded_file_name = InitialSession.uploaded_file_name
    /\ toc = InitialSession.toc
    /\ chat_histories = InitialSession.chat_histories
    /\ dialog = "none"
    /\ rerun = FALSE
    /\ conv_count = ZeroCount
    /\ store_count = ZeroCount
    /\ ev = Event("init", <<>>, Ran(InitialSession))
    /\ md = <<>> /\ fixed_text = <<>>

(* ---------------------------------------------------------------------- *)
(* Script runs                                                            *)
(* ---------------------------------------------------------------------- *)
\* The sidebar widgets of lines 283-348 are on screen and can be used.
Rendered ==
    /\ uploaded_file # NoFile
    /\ uploaded_file_name = uploaded_file.name
    /\ total_pages > 0
    /\ dialog = "none"
    /\ ~rerun

\* The outcomes to choose for a call of ensure_pages_loaded: there is a
\* conversion, and so an outcome, only when an index is missing.
ConvFor(pgs, page_indices) ==
    IF IndicesToLoad(pgs, page_indices) = <<>> THEN {"ok"} ELSE ConvOutcomes

\* The outcomes for the load of the current page by a run of main().
Conv1Choices(f) ==
    LET s == Opened(Session, f)
    IN  IF f = NoFile \/ s.total_pages = 0 THEN {"ok"}
        ELSE ConvFor(s.pages, <<Clamp(s.current_page, s.total_pages)>>)

\* The outcomes to choose for the calls a button leads to: the second
\* ensure_pages_loaded call and the LLM call happen only behind a button.
ConvChoices(button) ==
    IF button \in {"summarize_all", "download"} THEN ConvOutcomes
    ELSE {"ok"}

LlmChoices(button) ==
    IF button \in {"summarize_all", "summarize_page"} THEN LlmOutcomes
    ELSE {"ok"}

\* A run of main() with the uploader holding f and button clicked.
Script(f, button) ==
    \E conv1 \in Conv1Choices(f), conv2 \in ConvChoices(button),
       llm \in LlmChoices(button) :
        LET r == Main(Session, f, button, conv1, conv2, llm)
        IN  /\ Apply(r)
            /\ uploaded_file' = f
            /\ ev' = Event("main", <<>>, r)
            /\ UNCHANGED repair_vars

\* The user puts file f in the uploader (a file of another name).
UploadFile(f) ==
    /\ ~rerun /\ dialog = "none"
    /\ f.name # uploaded_file.name
    /\ Script(f, "none")

\* The user removes the file from the uploader.
RemoveFile ==
    /\ ~rerun /\ dialog = "none"
    /\ uploaded_file # NoFile
    /\ Script(NoFile, "none")

\* The user clicks a sidebar button.
ClickButton(button) ==
    /\ Rendered
    /\ Script(uploaded_file, button)

\* The user moves the width-ratio slider: a run with no button clicked.
ChangeRatio ==
    /\ Rendered
    /\ Script(uploaded_file, "none")

\* The rerun queued by st.rerun() or by a widget callback.
RerunScript ==
    /\ rerun
    /\ Script(uploaded_file, "none")

(* ---------------------------------------------------------------------- *)
(* Callbacks and dialog runs                                              *)
(* ---------------------------------------------------------------------- *)
JumpInputs == 0 .. MaxPages + 1

\* The test without its lower bound.
JumpAcceptedNoLower(page_jump, total) == page_jump <= total

\* if 1 <= page_jump <= total_pages
JumpAccepted(page_jump, total) == 1 <= page_jump /\ page_jump <= total

\* handle_page_jump, the on_change callback of the page number field; the
\* script reruns after it.
HandlePageJump(page_jump) ==
    /\ Rendered
    /\ current_page' = IF JumpAccepted(page_jump, total_pages)
                       THEN page_jump - 1 ELSE current_page
    /\ rerun' = TRUE
    /\ ev' = Event("jump", <<page_jump>>,
                   [Ran(Session) EXCEPT
                      !.error = IF JumpAccepted(page_jump, total_pages)
                                THEN "none" ELSE "jump"])
    /\ UNCHANGED <<uploaded_file, pages, total_pages, uploaded_file_name,
                   toc, chat_histories, dialog, conv_count, store_count,
                   md, fixed_text>>

\* st.session_state.current_page = page - 1
TocTarget(page) == page - 1

\* toc_dialog: the user clicks entry i of the table of contents.
TocSelect(i) ==
    /\ dialog = "toc" /\ ~rerun
    /\ i \in 1 .. Len(toc)
    /\ current_page' = TocTarget(toc[i])
    /\ rerun' = TRUE
    /\ ev' = Event("toc", <<i>>, Ran(Session))
    /\ UNCHANGED <<uploaded_file, pages, total_pages, uploaded_file_name,
                   toc, chat_histories, dialog, conv_count, store_count,
                   md, fixed_text>>

\* A run of chat_dialog after the user used a widget of the dialog, the
\* number fields holding start_page and end_page.
ChatRun(op, start_page, end_page, clear_clicked, prompted) ==
    /\ dialog = "chat" /\ ~rerun
    /\ IF SelectedIndices(start_page, end_page) = <<>> THEN TRUE
       ELSE \/ ChatKey(SelectedIndices(start_page, end_page))
                  \in DOMAIN chat_histories
            \/ Cardinality(DOMAIN chat_histories) < MaxKeys
    /\ \E conv \in ConvFor(pages, SelectedIndices(start_page, end_page)),
          llm \in (IF prompted THEN LlmOutcomes ELSE {"ok"}) :
        LET r == ChatDialog(Session, uploaded_file, start_page, end_page,
                            clear_clicked, prompted, conv, llm)
        IN  /\ Apply(r)
            /\ ev' = Event(op, <<start_page, end_page>>, r)
            /\ UNCHANGED <<uploaded_file, md, fixed_text>>

\* The values the two number fields can hold (min_value=1,
\* max_value=total_pages).
ChatPages == 1 .. total_pages

\* The user changes the start or the end page.
ChatSetRange(start_page, end_page) ==
    ChatRun("chat_range", start_page, end_page, FALSE, FALSE)

\* The user sets a start page above the end page.
ChatInvalidRange(start_page, end_page) ==
    /\ start_page > end_page
    /\ ChatSetRange(start_page, end_page)

\* The user clicks "Clear Chat History".
ChatClear(start_page, end_page) ==
    ChatRun("chat_clear", start_page, end_page, TRUE, FALSE)

\* The user submits a prompt.
ChatPrompt(start_page, end_page) ==
    /\ TotalTurns(chat_histories) < MaxTurns
    /\ ChatRun("chat_prompt", start_page, end_page, FALSE, TRUE)

\* The user closes the dialog; no run follows.
DismissDialog ==
    /\ dialog # "none" /\ ~rerun
    /\ dialog' = "none"
    /\ ev' = Event("dismiss", <<>>, Ran(Session))
    /\ UNCHANGED <<uploaded_file, current_page, pages, total_pages,
                   uploaded_file_name, toc, chat_histories, rerun,
                   conv_count, store_count, md, fixed_text>>

Next ==
    \/ \E f \in Files : UploadFile(f)
    \/ RemoveFile
    \/ \E button \in Buttons : ClickButton(button)
    \/ ChangeRatio
    \/ RerunScript
    \/ \E page_jump \in JumpInputs : HandlePageJump(page_jump)
    \/ \E i \in 1 .. MaxPages + 2 : TocSelect(i)
    \/ \E start_page \in ChatPages, end_page \in ChatPages :
           ChatInvalidRange(start_page, end_page)
    \/ DismissDialog

\* The program with every handler; inside the chat dialog the range is the
\* default one or an invalid one, and no prompt is submitted.
Spec == Init /\ [][Next]_vars

\* The document of the chat specification: a.pdf with MaxPages - 1 pages.
ChatDoc ==
    [name |-> "a.pdf", opens |-> TRUE, page_count |-> MaxPages - 1,
     toc |-> SetToSeq(TocPages)]

NextChat ==
    \/ UploadFile(ChatDoc)
    \/ RemoveFile
    \/ ClickButton("chat")
    \/ RerunScript
    \/ \E start_page \in ChatPages, end_page \in ChatPages :
           ChatSetRange(start_page, end_page)
    \/ \E start_page \in ChatPages, end_page \in ChatPages :
           ChatClear(start_page, end_page)
    \/ \E start_page \in ChatPages, end_page \in ChatPages :
           ChatPrompt(start_page, end_page)
    \/ DismissDialog

\* The program with one document and the chat dialog, prompts included.
SpecChat == Init /\ [][NextChat]_vars

\* The texts fix_bold_symbol_issue is given.
Markdowns == TokenTexts(MaxTokens)

\* A fresh session and a text for fix_bold_symbol_issue.
InitFix ==
    /\ uploaded_file = NoFile
    /\ current_page = InitialSession.current_page
    /\ pages = InitialSession.pages
    /\ total_pages = InitialSession.total_pages
    /\ uploaded_file_name = InitialSession.uploaded_file_name
    /\ toc = InitialSession.toc
    /\ chat_histories = InitialSession.chat_histories
    /\ dialog = "none"
    /\ rerun = FALSE
    /\ conv_count = ZeroCount
    /\ store_count = ZeroCount
    /\ ev = Event("init", <<>>, Ran(InitialSession))
    /\ md \in Markdowns /\ fixed_text = <<>>

\* fix_bold_symbol_issue applied to the text, or to its last result.
ApplyFix ==
    /\ Len(fixed_text) < MaxPasses
    /\ fixed_text' =
           Append(fixed_text,
                  FixBoldSymbolIssue(IF fixed_text = <<>> THEN md
                                     ELSE fixed_text[Len(fixed_text)]))
    /\ UNCHANGED <<md, uploaded_file, current_page, pages, total_pages,
                   uploaded_file_name, toc, chat_histories, dialog, rerun,
                   conv_count, store_count, ev>>

NextFix == ApplyFix

\* fix_bold_symbol_issue on every text of at most MaxTokens tokens.
SpecFix == InitFix /\ [][NextFix]_vars

(* ---------------------------------------------------------------------- *)
(* Properties                                                             *)
(* ---------------------------------------------------------------------- *)
\* The ensure_pages_loaded calls of the last run, by position.
Calls == 1 .. Len(ev.ens)

\* The requested indices that were missing when call tr was made.
Missing(tr) == Range(tr.req) \ tr.cached

\* C1: after a call of ensure_pages_loaded returns, whether the converter
\* succeeded or raised, every requested index has an entry in the page
\* cache.
C1_EveryRequestedIndexCached ==
    \A k \in Calls : Range(ev.ens[k].req) \subseteq DOMAIN pages

\* A call whose converter raised on a batch of two or more pages has
\* returned.
C1_Witness ==
    \E k \in Calls :
        /\ ev.ens[k].outcome = "raises"
        /\ Len(ev.ens[k].calls[1]) >= 2
        /\ Range(ev.ens[k].req) \subseteq DOMAIN pages

\* C2: between two resets, over any sequence of ensure_pages_loaded calls, a
\* page index is passed to the converter at most once and its cache entry is
\* assigned at most once: a cached index is never converted again and never
\* overwritten.
C2_ConvertedAtMostOnce ==
    \A idx \in DOMAIN conv_count :
        conv_count[idx] <= 1 /\ store_count[idx] <= 1

\* A call asked for indices already cached together with missing ones: the
\* cached ones have been converted once, the missing ones are converted now.
C2_Witness ==
    \E k \in Calls :
        /\ ev.ens[k].cached # {}
        /\ ev.ens[k].calls # <<>>
        /\ \A idx \in ev.ens[k].cached : conv_count[idx] = 1
        /\ \A idx \in Missing(ev.ens[k]) : conv_count[idx] = 1

\* C3: a call of ensure_pages_loaded invokes the converter zero times when
\* every requested index is cached, otherwise exactly once, with exactly the
\* missing requested indices in ascending order; on success the entry
\* returned for an index is the one stored under it.
C3_OneBatchedCall ==
    \A k \in Calls :
        LET tr == ev.ens[k]
        IN  /\ tr.calls = IF Missing(tr) = {} THEN <<>>
                          ELSE <<SetToSeq(Missing(tr))>>
            /\ tr.outcome = "ok" =>
                   \A idx \in Missing(tr) :
                       idx \in DOMAIN pages /\ pages[idx] = PageData(idx)

\* A request overlapping the cache led to one converter call for the two or
\* more missing pages, which succeeded.
C3_Witness ==
    \E k \in Calls :
        /\ ev.ens[k].cached # {}
        /\ Len(ev.ens[k].calls) = 1
        /\ Len(ev.ens[k].calls[1]) >= 2
        /\ ev.ens[k].outcome = "ok"

\* C4: when the converter raises on a batch, every index of the batch holds
\* the error placeholder when the call has returned; the entries of the
\* indices cached before a run are unchanged by it; an index holding the
\* placeholder is not passed to the converter again; and the missing
\* indices of a later request are still passed to the converter and, on
\* success, hold their content.
C4_FailedBatch ==
    [][/\ \A k \in 1 .. Len(ev'.ens) :
              ev'.ens[k].outcome = "raises" =>
                  \A idx \in Range(ev'.ens[k].calls[1]) :
                      idx \in DOMAIN pages' /\ pages'[idx] = ErrorEntry
       /\ ~ev'.reset =>
              \A idx \in DOMAIN pages :
                  /\ idx \in DOMAIN pages' /\ pages'[idx] = pages[idx]
                  /\ pages[idx] = ErrorEntry =>
                         \A k \in 1 .. Len(ev'.ens) :
                             \A j \in 1 .. Len(ev'.ens[k].calls) :
                                 idx \notin Range(ev'.ens[k].calls[j])
       /\ \A k \in 1 .. Len(ev'.ens) :
              /\ Missing(ev'.ens[k]) # {} =>
                     /\ Len(ev'.ens[k].calls) = 1
                     /\ Range(ev'.ens[k].calls[1]) = Missing(ev'.ens[k])
              /\ ev'.ens[k].outcome = "ok" =>
                     \A idx \in Missing(ev'.ens[k]) :
                         pages'[idx] = PageData(idx)]_vars

\* A request for an index of a failed batch together with missing ones: the
\* placeholder is still there and the others were converted.
C4_Witness ==
    \E k \in Calls :
        /\ \E idx \in ev.ens[k].cached : pages[idx] = ErrorEntry
        /\ ev.ens[k].outcome = "ok"
        /\ \E idx \in Missing(ev.ens[k]) : pages[idx] = PageData(idx)

\* C5: after a run of main() in which the uploaded file's name differs from
\* the stored name, or no file is uploaded, no transcript remains, every
\* page entry present was created in this run, the current page is 0, and
\* the page count and outline are those of the new file (0 and empty
\* without a file).
C5_SessionDiscarded ==
    [][(/\ ev'.op = "main"
        /\ \/ uploaded_file' = NoFile
           \/ uploaded_file'.name # uploaded_file_name)
       => /\ chat_histories' = EmptyChats
          /\ current_page' = 0
          /\ total_pages' = uploaded_file'.page_count
          /\ toc' = uploaded_file'.toc
          /\ \A idx \in DOMAIN pages' :
                 \E k \in 1 .. Len(ev'.ens) : idx \in Missing(ev'.ens[k])
          /\ uploaded_file' = NoFile => pages' = EmptyPages]_vars

\* A new document has replaced a session that had page entries or
\* transcripts.
C5_Witness ==
    /\ ev.op = "main" /\ ev.reset /\ ev.lost
    /\ uploaded_file # NoFile /\ total_pages > 0
    /\ chat_histories = EmptyChats /\ current_page = 0

\* The current page is a page of the open document.
PageInRange == current_page \in 0 .. total_pages - 1

\* C6 as stated: in every reachable state with an open document the stored
\* current page index is in [0, total_pages).
C6_AlwaysInRange == total_pages > 0 => PageInRange

\* C6, amended: with an open document the stored current page index is in
\* [0, total_pages) except while the rerun queued by a table-of-contents
\* selection is pending.
C6_InRangeAfterRerun ==
    (total_pages > 0 /\ ~(rerun /\ ev.op = "toc")) => PageInRange

\* The run that followed a table-of-contents selection found the index
\* below 0 and set it to 0.
C6_Witness ==
    /\ ev.op = "main" /\ ev.clamp = "low"
    /\ total_pages > 0 /\ current_page = 0 /\ ~rerun

\* C7: handle_page_jump with 1 <= page_jump <= total_pages sets the current
\* page to page_jump - 1; otherwise it leaves it unchanged and warns; in
\* both cases the page cache and the transcripts are unchanged.
C7_JumpTo ==
    [][ev'.op = "jump" =>
          LET page_jump == ev'.args[1]
          IN  /\ IF 1 <= page_jump /\ page_jump <= total_pages
                 THEN current_page' = page_jump - 1 /\ ev'.error = "none"
                 ELSE current_page' = current_page /\ ev'.error = "jump"
              /\ pages' = pages
              /\ chat_histories' = chat_histories]_vars

\* A jump below page 1 was rejected with the warning, in a session with
\* page entries and a transcript.
C7_Witness ==
    /\ ev.op = "jump" /\ ev.error = "jump" /\ ev.args[1] < 1
    /\ pages # EmptyPages /\ chat_histories # EmptyChats

\* C8: the bounds check of a run of main() leaves an index in
\* [0, total_pages) alone, sets a negative one to 0 and one >= total_pages
\* to total_pages - 1; the index the run loads and displays is in
\* [0, total_pages).
C8_Clamp ==
    [][(ev'.op = "main" /\ ev'.clamp # "none") =>
          LET before == IF ev'.reset THEN 0 ELSE current_page
              total == total_pages'
          IN  /\ before \in 0 .. total - 1 => current_page' = before
              /\ before < 0 => current_page' = 0
              /\ before >= total => current_page' = total - 1
              /\ ev'.shown = current_page'
              /\ ev'.shown \in 0 .. total - 1
              /\ ev'.ens[1].req = <<ev'.shown>>]_vars

\* A run found the index at or above total_pages and set it to the last
\* page, which it displays.
C8_Witness ==
    /\ ev.op = "main" /\ ev.clamp = "high"
    /\ current_page = total_pages - 1 /\ ev.shown = current_page

ChatOps == {"chat_range", "chat_clear", "chat_prompt"}

\* C9: a run of chat_dialog with start_page > end_page shows the range
\* error and does nothing else: no ensure_pages_loaded call, no transcript
\* created, appended to or cleared (clear or a prompt requested or not), no
\* rerun, page cache and current page unchanged.
C9_InvalidRange ==
    [][(ev'.op \in ChatOps /\ ev'.args[1] > ev'.args[2]) =>
          /\ ev'.error = "range"
          /\ ev'.ens = <<>>
          /\ chat_histories' = chat_histories
          /\ pages' = pages
          /\ current_page' = current_page
          /\ conv_count' = conv_count
          /\ ~rerun']_vars

\* Clear was clicked with a reversed range while a transcript had turns.
C9_Witness ==
    /\ ev.op = "chat_clear" /\ ev.error = "range"
    /\ ev.args[1] > ev.args[2]
    /\ TotalTurns(chat_histories) > 0

\* The ranges 1 <= start <= end <= MaxPages.
ValidRanges ==
    {r \in (1 .. MaxPages) \X (1 .. MaxPages) : r[1] <= r[2]}

\* Different ranges have different keys.
KeysInjective ==
    \A r1 \in ValidRanges, r2 \in ValidRanges :
        r1 # r2 => ChatKey(SelectedIndices(r1[1], r1[2]))
                       # ChatKey(SelectedIndices(r2[1], r2[2]))

\* The pages 2 to 4 resolve to the indices 1, 2, 3 and the key "1-3".
KeyExample ==
    /\ SelectedIndices(2, 4) = <<1, 2, 3>>
    /\ ChatKey(SelectedIndices(2, 4))
           = [kind |-> "str", repr |-> <<"1", "-", "3">>]

\* C10: for a range 1 <= start <= end <= total_pages a run of chat_dialog
\* loads the ascending indices start-1 .. end-1 and uses the transcript of
\* the key that is the index start-1 when start = end and the string
\* "first-last" of the first and last index otherwise (pages 2 to 4: indices
\* 1, 2, 3 and key "1-3"); different ranges have different keys.
C10_RangeResolution ==
    [][/\ (/\ ev'.op \in ChatOps
           /\ ev'.args[1] <= ev'.args[2]
           /\ ev'.args[2] <= total_pages)
          => LET first == ev'.args[1] - 1
                 last == ev'.args[2] - 1
                 key == IF first = last
                        THEN [kind |-> "int", repr |-> Str(first)]
                        ELSE [kind |-> "str",
                              repr |-> Str(first) \o <<"-">> \o Str(last)]
             IN  /\ ev'.ens[1].req = [k \in 1 .. last - first + 1 |->
                                         first + k - 1]
                 /\ DOMAIN chat_histories' = DOMAIN chat_histories \cup {key}
       /\ KeysInjective
       /\ KeyExample]_vars

\* The dialog opened on page 1 was set to the pages 1 to 2: the transcript
\* of the key 0 and the one of the key "0-1" exist.
C10_Witness ==
    /\ ev.op = "chat_range" /\ ev.error = "none"
    /\ ev.args = <<1, 2>>
    /\ DOMAIN chat_histories =
           {[kind |-> "int", repr |-> <<"0">>],
            [kind |-> "str", repr |-> <<"0", "-", "1">>]}


\* A run of chat_dialog on the valid range of its start and end page.
ValidChatRun(e) ==
    /\ e.op \in ChatOps
    /\ 1 <= e.args[1] /\ e.args[1] <= e.args[2]

\* C11 as stated: for the range (p, p) the transcript key is the integer p,
\* the 1-based page number.
C11_KeyIsPageNumber ==
    [][(ValidChatRun(ev') /\ ev'.args[1] = ev'.args[2]) =>
          DOMAIN chat_histories' =
              DOMAIN chat_histories
              \cup {[kind |-> "int", repr |-> Str(ev'.args[1])]}]_vars

\* C11, amended: for the range (p, p) the transcript key is the integer
\* p - 1, the 0-based index of page p; for the range (p, p + 1) it is a
\* string, which differs from every integer key, those of p - 1, p and p + 1
\* included.
C11_ScalarAndCompositeKey ==
    [][ValidChatRun(ev') =>
          LET page == ev'.args[1]
              scalar(n) == [kind |-> "int", repr |-> Str(n)]
          IN  /\ ev'.args[2] = page =>
                     DOMAIN chat_histories' =
                         DOMAIN chat_histories \cup {scalar(page - 1)}
              /\ ev'.args[2] = page + 1 =>
                     \E key \in DOMAIN chat_histories' :
                         /\ DOMAIN chat_histories' =
                                DOMAIN chat_histories \cup {key}
                         /\ key.kind = "str"
                         /\ key \notin {scalar(page - 1), scalar(page),
                                        scalar(page + 1)}]_vars

\* The dialog was set to page 2 alone: its transcript has the key 1, and
\* there is none of the key 2.
C11_Witness ==
    /\ ev.op = "chat_range" /\ ev.args = <<2, 2>>
    /\ [kind |-> "int", repr |-> <<"1">>] \in DOMAIN chat_histories
    /\ [kind |-> "int", repr |-> <<"2">>] \notin DOMAIN chat_histories


\* The key of the range of run e, written out: the integer first index for
\* one page, the string "first-last" otherwise.
RangeKey(e) ==
    IF e.args[1] = e.args[2]
    THEN [kind |-> "int", repr |-> Str(e.args[1] - 1)]
    ELSE [kind |-> "str",
          repr |-> Str(e.args[1] - 1) \o <<"-">> \o Str(e.args[2] - 1)]

\* The transcript of key in h, empty when there is none.
TurnsOf(h, key) == IF key \in DOMAIN h THEN h[key] ELSE <<>>

\* C12: a run of chat_dialog changes only the transcript of the key of its
\* range: a prompt appends to it, clear leaves it empty with its key
\* present, a range change leaves it as it is; the transcripts of all other
\* keys, those of overlapping ranges included, stay as they are.
C12_TranscriptsIsolated ==
    [][ValidChatRun(ev') =>
          LET key == RangeKey(ev')
              old == TurnsOf(chat_histories, key)
          IN  /\ key \in DOMAIN chat_histories'
              /\ \A k \in DOMAIN chat_histories \ {key} :
                     /\ k \in DOMAIN chat_histories'
                     /\ chat_histories'[k] = chat_histories[k]
              /\ ev'.op = "chat_clear" => chat_histories'[key] = <<>>
              /\ ev'.op = "chat_range" => chat_histories'[key] = old
              /\ ev'.op = "chat_prompt" =>
                     /\ Len(chat_histories'[key]) > Len(old)
                     /\ SubSeq(chat_histories'[key], 1, Len(old)) = old]_vars

\* A prompt was answered for the pages 1 to 2 while the transcript of page 1
\* alone, an overlapping range, holds its own turn.
C12_Witness ==
    /\ ev.op = "chat_prompt" /\ ev.args = <<1, 2>>
    /\ DOMAIN chat_histories = {[kind |-> "int", repr |-> <<"0">>],
                                [kind |-> "str", repr |-> <<"0", "-", "1">>]}
    /\ chat_histories[[kind |-> "int", repr |-> <<"0">>]] = <<UserTurn>>
    /\ chat_histories[[kind |-> "str", repr |-> <<"0", "-", "1">>]]
           = <<UserTurn, AssistantTurn>>


\* In transcript turns every assistant turn directly follows a user turn.
AssistantFollowsUser(turns) ==
    \A n \in 1 .. Len(turns) :
        turns[n].role = "assistant" =>
            n > 1 /\ turns[n - 1].role = "user"

\* C13: a prompt whose LLM call fails (the provider raises, or there is no
\* client) leaves the user's turn at the end of the current transcript and
\* appends no assistant turn; one that succeeds appends the user's turn and
\* directly after it one assistant turn.  So every assistant turn of every
\* transcript directly follows a user turn.
C13_FailedCallKeepsUserTurn ==
    [][/\ (ValidChatRun(ev') /\ ev'.op = "chat_prompt") =>
              LET key == RangeKey(ev')
                  old == TurnsOf(chat_histories, key)
                  user == [role |-> "user", content |-> "prompt"]
                  assistant == [role |-> "assistant", content |-> "answer"]
              IN  /\ ev'.error \in {"llm", "noclient", "none"}
                  /\ ev'.error \in {"llm", "noclient"} =>
                         chat_histories'[key] = old \o <<user>>
                  /\ ev'.error = "none" =>
                         chat_histories'[key] = old \o <<user, assistant>>
       /\ \A k \in DOMAIN chat_histories' :
              AssistantFollowsUser(chat_histories'[k])]_vars

\* A prompt whose call failed was followed by one that was answered: the
\* first user turn is still there, the assistant turn follows the second.
C13_Witness ==
    /\ ev.op = "chat_prompt" /\ ev.error = "none"
    /\ \E k \in DOMAIN chat_histories :
           chat_histories[k] = <<UserTurn, UserTurn, AssistantTurn>>


\* C14: fix_bold_symbol_issue is idempotent: applied to its own result it
\* returns that result, for every text of at most MaxTokens tokens.
C14_Idempotent ==
    \A n \in 2 .. Len(fixed_text) : fixed_text[n] = fixed_text[1]

\* A text the first application changed and the second left as it was.
C14_Witness ==
    /\ Len(fixed_text) >= 2
    /\ fixed_text[1] # md
    /\ fixed_text[2] = fixed_text[1]


RECURSIVE Spans(_, _)
\* The spans fix_bold_symbol_issue finds in text from position n on, each
\* with the position of its content (from, to) and of the last asterisk of
\* its closing marker (closed).
Spans(text, n) ==
    IF n > Len(text) THEN {}
    ELSE LET m == MatchAt(text, n)
         IN  IF m.stop = 0 THEN Spans(text, n + 1)
             ELSE {[from |-> n + 2, to |-> n + 1 + Len(m.inner),
                    closed |-> n + 3 + Len(m.inner)]}
                  \cup Spans(text, m.stop)

\* The content of span sp has a character that is no letter, digit or
\* whitespace, and what follows its closing marker is not whitespace.
NeedsSpace(text, sp) ==
    /\ \E n \in sp.from .. sp.to :
           text[n] \notin {"a", "e", "k", "n", "o", "t", "x", "0", "9",
                           " ", "\n"}
    /\ \/ sp.closed = Len(text)
       \/ text[sp.closed + 1] \notin {" ", "\n"}

RECURSIVE WithSpaces(_, _, _)
\* text from position n on, with a space after each position of at.
WithSpaces(text, at, n) ==
    IF n > Len(text) THEN <<>>
    ELSE <<text[n]>> \o (IF n \in at THEN <<" ">> ELSE <<>>)
         \o WithSpaces(text, at, n + 1)

\* repair("**!!**next") = "**!!** next", and repair("**ok**next") is
\* unchanged.
FixExamples ==
    /\ FixBoldSymbolIssue(<<"*", "*", "!", "!", "*", "*",
                            "n", "e", "x", "t">>)
           = <<"*", "*", "!", "!", "*", "*", " ", "n", "e", "x", "t">>
    /\ FixBoldSymbolIssue(<<"*", "*", "o", "k", "*", "*",
                            "n", "e", "x", "t">>)
           = <<"*", "*", "o", "k", "*", "*", "n", "e", "x", "t">>

\* C15: the result of fix_bold_symbol_issue is the text with one space
\* inserted directly after the closing marker of each span found whose
\* content has a character that is no ASCII letter, digit or whitespace and
\* whose closing marker is not followed by whitespace; every other span and
\* every other character is as it was.
C15_SpaceAfterSymbolSpan ==
    /\ FixExamples
    /\ Len(fixed_text) >= 1 =>
           fixed_text[1] =
               WithSpaces(md,
                          {sp.closed : sp \in {s \in Spans(md, 1) :
                                                  NeedsSpace(md, s)}},
                          1)

\* A text with a span that gets a space, "**!**", directly followed by one
\* that does not, "**a**".
C15_Witness ==
    /\ md = <<"*", "*", "!", "*", "*", "*", "*", "a", "*", "*">>
    /\ fixed_text
           = << <<"*", "*", "!", "*", "*", " ", "*", "*", "a", "*", "*">> >>

\* The run showed an error other than a failure to open: a conversion
\* failed, a jump or a range was rejected, or the LLM call failed.
OtherError(e) ==
    \/ e.error \in {"jump", "range", "llm", "noclient"}
    \/ \E k \in 1 .. Len(e.ens) : e.ens[k].outcome # "ok"

\* C16: a run of main() that fails to open a newly uploaded file leaves the
\* initial session state and makes no ensure_pages_loaded call; a run with
\* any other error (conversion, range, jump, LLM) leaves the uploaded
\* document open with its name, page count (above 0) and outline stored,
\* and these are the values from before the run unless the run itself
\* switched to this document.
C16_OpenFailureResets ==
    [][/\ (/\ ev'.op = "main"
           /\ uploaded_file' # NoFile
           /\ ~uploaded_file'.opens
           /\ uploaded_file'.name # uploaded_file_name)
          => /\ ev'.error = "open"
             /\ ev'.ens = <<>>
             /\ conv_count' = ZeroCount
             /\ [current_page |-> current_page', pages |-> pages',
                 total_pages |-> total_pages',
                 uploaded_file_name |-> uploaded_file_name',
                 toc |-> toc', chat_histories |-> chat_histories']
                    = InitialSession
       /\ OtherError(ev')
          => /\ ev'.error # "open"
             /\ uploaded_file' # NoFile
             /\ uploaded_file_name' = uploaded_file'.name
             /\ total_pages' = uploaded_file'.page_count
             /\ total_pages' > 0
             /\ toc' = uploaded_file'.toc
             /\ ~ev'.reset
                   => /\ uploaded_file' = uploaded_file
                      /\ uploaded_file_name' = uploaded_file_name
                      /\ total_pages' = total_pages
                      /\ toc' = toc]_vars

\* A file that does not open replaced a document with loaded pages.
C16_Witness ==
    /\ ev.op = "main" /\ ev.error = "open" /\ ev.lost
    /\ uploaded_file # NoFile /\ ~uploaded_file.opens
    /\ uploaded_file_name = None /\ total_pages = 0

\* Every page of the document has a cache entry.
EveryPageCached == \A idx \in 0 .. total_pages - 1 : idx \in DOMAIN pages

\* C17: the keys of the page cache are page indices of the document, so
\* len(pages) == total_pages holds exactly when every page has an entry; the
\* download is offered only by a run of main() that ends with every page
\* cached, and it is the texts of the pages 0 .. total_pages - 1 in
\* ascending order.
C17_CacheKeysInDocument ==
    /\ DOMAIN pages \subseteq 0 .. total_pages - 1
    /\ AllPagesLoaded(pages, total_pages) <=> EveryPageCached
    /\ ev.artifact # <<>>
          => /\ ev.op = "main"
             /\ total_pages > 0
             /\ EveryPageCached
             /\ ev.artifact = [k \in 1 .. total_pages |-> pages[k - 1].text]

\* The download was offered for a document of several pages, one of them
\* holding the error entry.
C17_Witness ==
    /\ ev.op = "main" /\ ev.artifact # <<>>
    /\ total_pages >= 2 /\ Len(ev.artifact) = total_pages
    /\ \E idx \in DOMAIN pages : pages[idx] = ErrorEntry
    /\ \E idx \in DOMAIN pages : pages[idx] # ErrorEntry

\* C18: no run of main() fails on the read of pages[current_page_index]:
\* after a run with an open document the page displayed is the stored
\* current page, it lies in the document, the first ensure_pages_loaded
\* call of the run asked for exactly that page, and the page has a cache
\* entry, whether its conversion succeeded or raised.
C18_CurrentPageCached ==
    /\ ev.error # "KeyError"
    /\ (ev.op = "main" /\ total_pages > 0)
          => /\ ev.shown = current_page
             /\ ev.shown \in 0 .. total_pages - 1
             /\ ev.ens # <<>>
             /\ ev.ens[1].req = <<ev.shown>>
             /\ ev.shown \in DOMAIN pages

\* The run that followed a table-of-contents selection beyond the last
\* page displays the last page, whose conversion raised.
C18_Witness ==
    /\ ev.op = "main" /\ ev.clamp = "high"
    /\ ev.ens[1].calls # <<>> /\ ev.ens[1].outcome = "raises"
    /\ current_page = total_pages - 1
    /\ pages[current_page] = ErrorEntry

=============================================================================
